---- MODULE Spec2Model ----
(***************************************************************************)
(* A state-machine model of espeasydownloadrobot.py: the lease parser      *)
(* get_ips_from_leases_live and the probing/downloading loop of main().    *)
(* Strings that the program inspects or transforms (addresses, host names, *)
(* archive file names) are sequences of one-character strings.             *)
(***************************************************************************)
EXTENDS Naturals, Sequences, FiniteSets

(***************************************************************************)
(* Bounds of the model.                                                    *)
(***************************************************************************)
\* longest lease feed, in lines
MaxLines == 2
\* most archive files on disk before the run
MaxPreExisting == 1

(***************************************************************************)
(* Data of the environment.                                                *)
(***************************************************************************)
IP1 == <<"1", ".", "1", ".", "1", ".", "1">>
IP2 == <<"1", ".", "1", ".", "1", ".", "2">>
IPs == {IP1, IP2}

HostA == <<"E", "S", "P", "-", "a">>
HostB == <<"E", "S", "P", "-", "b">>
HostOther == <<"O", "T", "H", "E", "R">>
Hosts == {HostA, HostB, HostOther}

\* One line of the lease feed: either it matches regex_dnsmasq_leases and
\* carries the two groups (ip, hostname), or it does not match.
Lines ==
    [matches : {TRUE}, ip : IPs, hostname : Hosts]
        \cup {[matches |-> FALSE, ip |-> <<>>, hostname |-> <<>>]}

RECURSIVE SeqsUpTo(_, _)
SeqsUpTo(S, n) ==
    IF n = 0 THEN {<<>>}
    ELSE LET shorter == SeqsUpTo(S, n - 1)
         IN  shorter \cup {Append(s, x) : s \in {t \in shorter : Len(t) = n - 1}, x \in S}

Feeds == SeqsUpTo(Lines, MaxLines)

\* line 67-68
DOWNLOAD_FILES ==
    <<"json", "config.dat", "security.dat", "rules1.txt", "rules2.txt",
      "rules3.txt", "rules4.txt", "esp.css", "notification.dat">>

\* The resources a device may fail to serve (the first of the manifest and
\* one in the middle); it serves every other one.
MayFail == {"json", "rules3.txt"}

\* What a device may answer to a GET of a resource: r.ok and r.content.
GetResponses(name) ==
    {[ok |-> TRUE, content |-> "data"]}
        \cup (IF name \in MayFail THEN {[ok |-> FALSE, content |-> "errorpage"]} ELSE {})

\* Outcomes of requests.head(url, timeout=1): a response that is ok or not,
\* or one of the transport exceptions of requests.
HeadOutcomes == {"ok", "notok", "ConnectTimeout", "ReadTimeout", "ConnectionError"}

\* Contents of an archive left by an earlier run (a partial one).
PreContents == {<<[name |-> "json", data |-> "old"]>>}

(***************************************************************************)
(* Pure helpers.                                                           *)
(***************************************************************************)
\* str.startswith
StartsWith(s, prefix) ==
    /\ Len(s) >= Len(prefix)
    /\ SubSeq(s, 1, Len(prefix)) = prefix

\* str.replace for one-character old/new
Replace(s, old, new) ==
    [i \in 1..Len(s) |-> IF s[i] = old THEN new ELSE s[i]]

\* "%s_%s.zip" % (ip.replace('.', '-'), ip2hostname[ip])
ArchiveFilename(ip, hostname) ==
    Replace(ip, ".", "-") \o <<"_">> \o hostname \o <<".", "z", "i", "p">>

\* 'ESP-' of line 101
ESP_PREFIX == <<"E", "S", "P", "-">>

\* a parser that keeps the first record of every address only
RECURSIVE ParseLinesDedup(_)
ParseLinesDedup(lines) ==
    IF lines = <<>> THEN <<>>
    ELSE LET init == ParseLinesDedup(SubSeq(lines, 1, Len(lines) - 1))
             line == lines[Len(lines)]
         IN  IF /\ StartsWith(line.hostname, ESP_PREFIX)
                /\ \A i \in 1..Len(init) : init[i][1] # line.ip
             THEN Append(init, <<line.ip, line.hostname>>)
             ELSE init

\* a parser without the filter of line 101
ParseLinesNoFilter(lines) ==
    [i \in 1..Len(lines) |-> <<lines[i].ip, lines[i].hostname>>]

\* the lines 98-102 of get_ips_from_leases_live, on well-formed lines
RECURSIVE ParseLines(_)
ParseLines(lines) ==
    IF lines = <<>> THEN <<>>
    ELSE LET line == Head(lines)
         IN  IF StartsWith(line.hostname, ESP_PREFIX)
             THEN <<(<<line.ip, line.hostname>>)>> \o ParseLines(Tail(lines))
             ELSE ParseLines(Tail(lines))

\* m is None for some line: m.groups() raises AttributeError
HasMalformed(lines) == \E i \in 1..Len(lines) : ~lines[i].matches

\* index of the first malformed line (Len+1 when there is none)
FirstMalformed(lines) ==
    IF HasMalformed(lines)
    THEN CHOOSE i \in 1..Len(lines) :
            /\ ~lines[i].matches
            /\ \A j \in 1..(i - 1) : lines[j].matches
    ELSE Len(lines) + 1

\* dict(ips_hostnames): the last pair of a key wins
RECURSIVE Dict(_)
Dict(pairs) ==
    IF pairs = <<>> THEN <<>>
    ELSE LET init == Dict(SubSeq(pairs, 1, Len(pairs) - 1))
             last == pairs[Len(pairs)]
         IN  [k \in (DOMAIN init) \cup {last[1]} |->
                 IF k = last[1] THEN last[2] ELSE init[k]]

\* a removal that puts the element back at the end of the list
RECURSIVE ListRemoveRequeue(_, _)
ListRemoveRequeue(list, x) ==
    IF list = <<>> THEN <<>>
    ELSE IF Head(list) = x THEN Append(Tail(list), x)
    ELSE <<Head(list)>> \o ListRemoveRequeue(Tail(list), x)

\* list.remove(x): removes the first occurrence of x
RECURSIVE ListRemove(_, _)
ListRemove(list, x) ==
    IF list = <<>> THEN <<>>
    ELSE IF Head(list) = x THEN Tail(list)
    ELSE <<Head(list)>> \o ListRemove(Tail(list), x)

Count(list, x) == Cardinality({i \in 1..Len(list) : list[i] = x})

(***************************************************************************)
(* State.                                                                  *)
(***************************************************************************)
VARIABLES
    feed,           \* the lines of the lease feed not yet read from the response
    feedOk,         \* req.ok of the lease feed request
    fs,             \* the archive files on disk: file name -> entries
    pc,             \* position of main()
    ips_hostnames,  \* ips_hostnames of get_ips_from_leases_live, then of main
    todo,           \* main: todo
    ip2hostname,    \* main: ip2hostname
    idx,            \* position of the list iterator of "for ip in todo"
    ip,             \* main: ip, the target under examination
    k,              \* position in DOWNLOAD_FILES of the retrieval
    error,          \* the exception that ended the run, "none" otherwise
    exitCode,       \* value returned by main(), "none" before
    \* observations of the run (no influence on the program)
    probed,         \* addresses a HEAD request was issued to
    getLog,         \* per address, the GET requests issued and their answers
    removed,        \* the todo.remove() calls, in order: address and site
    snapshot,       \* todo as it was when the running pass began
    examined,       \* the addresses the running pass has bound to ip, in order
    lastHead,       \* outcome of the HEAD request of the running examination
    passProbed,     \* addresses a HEAD request was issued to since the last sleep
    dropped         \* addresses of the lease records line 101 filtered out

vars ==
    <<feed, feedOk, fs, pc, ips_hostnames, todo, ip2hostname, idx, ip, k,
      error, exitCode, probed, getLog, removed, snapshot,
      examined, lastHead, passProbed, dropped>>

\* what the loop of main never assigns
prog == <<feed, feedOk, ips_hostnames, ip2hostname>>

\* every file name the run can give an archive
Filenames ==
    {ArchiveFilename(a, h) : a \in IPs, h \in {n \in Hosts : StartsWith(n, ESP_PREFIX)}}

\* the disks the run may start on
InitialDisks ==
    UNION {[D -> PreContents] : D \in {S \in SUBSET Filenames : Cardinality(S) <= MaxPreExisting}}

\* os.path.exists
Exists(disk, filename) == filename \in DOMAIN disk

\* zipfile.ZipFile(filename, 'a'): creates the file unless it is there
ZipOpen(disk, filename) ==
    IF Exists(disk, filename) THEN disk
    ELSE [f \in (DOMAIN disk) \cup {filename} |->
             IF f = filename THEN <<>> ELSE disk[f]]

\* a writer that truncates the archive at every write
WriteStrTruncating(disk, filename, name, content) ==
    [disk EXCEPT ![filename] = <<[name |-> name, data |-> content]>>]

\* zf.writestr(name, content): one more entry at the end of the archive
WriteStr(disk, filename, name, content) ==
    [disk EXCEPT ![filename] = Append(@, [name |-> name, data |-> content])]

\* the archive of the target under examination (line 148)
CurrentArchive == ArchiveFilename(ip, ip2hostname[ip])

\* a loop that gives up on the last target
LoopConditionOffByOne(list) == Len(list) > 1

\* while len(todo) > 0
LoopCondition(list) == Len(list) > 0

\* the list iterator of the for statement has a next element
HasNext(list, i) == i <= Len(list)

Init ==
    /\ feed \in Feeds
    /\ feedOk \in BOOLEAN
    /\ fs \in InitialDisks
    /\ pc = "start"
    /\ ips_hostnames = <<>>
    /\ todo = <<>>
    /\ ip2hostname = <<>>
    /\ idx = 1
    /\ ip = <<>>
    /\ k = 1
    /\ error = "none"
    /\ exitCode = "none"
    /\ probed = {}
    /\ getLog = [a \in IPs |-> <<>>]
    /\ removed = <<>>
    /\ snapshot = <<>>
    /\ examined = <<>>
    /\ lastHead = "none"
    /\ passProbed = {}
    /\ dropped = {}

(***************************************************************************)
(* get_ips_from_leases_live and the lines 140-145 of main.                 *)
(***************************************************************************)
\* a parser that reads the body whatever the status of the response
LeasesResultIgnoresStatus(lines, ok) == ParseLines(lines)

\* the value get_ips_from_leases_live returns when it returns
LeasesResult(lines, ok) == IF ok THEN ParseLines(lines) ELSE <<>>

\* the addresses of the records the filter of line 101 does not retain
DroppedOf(lines, ok) ==
    IF ok
    THEN {lines[i].ip : i \in {j \in 1..Len(lines) :
                                 ~StartsWith(lines[j].hostname, ESP_PREFIX)}}
    ELSE {}

\* todo = [ip for ip, _ in ips_hostnames]
TodoOf(pairs) == [i \in 1..Len(pairs) |-> pairs[i][1]]

GetLeases ==
    /\ pc = "start"
    /\ ~(feedOk /\ HasMalformed(feed))
    /\ ips_hostnames' = LeasesResult(feed, feedOk)
    /\ todo' = TodoOf(ips_hostnames')
    /\ ip2hostname' = Dict(ips_hostnames')
    /\ feed' = IF feedOk THEN <<>> ELSE feed
    /\ pc' = "while"
    /\ UNCHANGED <<feedOk, fs, idx, ip, k, error, exitCode, probed, getLog, removed, snapshot, examined,
                   lastHead,
                   passProbed>>
    /\ dropped' = DroppedOf(feed, feedOk)

\* a parser that skips the lines that do not match and goes on
GetLeasesSkipsMalformed ==
    /\ pc = "start"
    /\ feedOk /\ HasMalformed(feed)
    /\ ips_hostnames' = ParseLines(SelectSeq(feed, LAMBDA l : l.matches))
    /\ todo' = TodoOf(ips_hostnames')
    /\ ip2hostname' = Dict(ips_hostnames')
    /\ feed' = <<>>
    /\ dropped' = DroppedOf(SelectSeq(feed, LAMBDA l : l.matches), feedOk)
    /\ pc' = "while"
    /\ UNCHANGED <<feedOk, fs, idx, ip, k, error, exitCode, probed, getLog,
                   removed, snapshot, examined, lastHead, passProbed>>

\* m = regex.match(line) is None: m.groups() raises AttributeError
GetLeasesMalformed ==
    /\ pc = "start"
    /\ feedOk /\ HasMalformed(feed)
    /\ feed' = SubSeq(feed, FirstMalformed(feed) + 1, Len(feed))
    /\ pc' = "crashed"
    /\ error' = "AttributeError"
    /\ ips_hostnames' = ParseLines(SubSeq(feed, 1, FirstMalformed(feed) - 1))
    /\ UNCHANGED <<feedOk, fs, todo, ip2hostname, idx,
                   ip, k, exitCode, probed, getLog, removed,
                   snapshot, examined,
                   lastHead,
                   passProbed>>
    /\ dropped' = DroppedOf(SubSeq(feed, 1, FirstMalformed(feed) - 1), feedOk)

(***************************************************************************)
(* The loop of main, lines 146-183.                                        *)
(***************************************************************************)
\* while len(todo) > 0: the for statement takes an iterator of todo
WhileEnter ==
    /\ pc = "while"
    /\ LoopCondition(todo)
    /\ pc' = "for"
    /\ idx' = 1
    /\ snapshot' = todo
    /\ examined' = <<>>
    /\ UNCHANGED <<prog, fs, todo, ip, k, error, exitCode, probed,
                   getLog, removed,
                   lastHead,
                   passProbed,
                   dropped>>

\* return 0
Return ==
    /\ pc = "while"
    /\ ~LoopCondition(todo)
    /\ pc' = "done"
    /\ exitCode' = 0
    /\ UNCHANGED <<prog, fs, todo, idx, ip, k, error, probed,
                   getLog, removed, snapshot, examined,
                   lastHead,
                   passProbed,
                   dropped>>

\* for ip in todo: the iterator yields todo[idx] of the list as it is now
ForNext ==
    /\ pc = "for"
    /\ HasNext(todo, idx)
    /\ ip' = todo[idx]
    /\ idx' = idx + 1
    /\ examined' = Append(examined, todo[idx])
    /\ pc' = "exists"
    /\ UNCHANGED <<prog, fs, todo, k, error, exitCode, probed,
                   getLog, removed, snapshot,
                   passProbed,
                   dropped>>
    /\ lastHead' = "none"

\* the iterator is exhausted: the pass is over
ForEnd ==
    /\ pc = "for"
    /\ ~HasNext(todo, idx)
    /\ pc' = "sleeping"
    /\ UNCHANGED <<prog, fs, todo, idx, ip, k, error, exitCode, probed, getLog, removed, snapshot, examined,
                   passProbed,
                   dropped>>
    /\ lastHead' = "none"

\* lines 149-152
SkipExisting ==
    /\ pc = "exists"
    /\ Exists(fs, CurrentArchive)
    /\ todo' = ListRemove(todo, ip)
    /\ removed' = Append(removed, [ip |-> ip, site |-> "exists"])
    /\ pc' = "for"
    /\ UNCHANGED <<prog, fs, idx, ip, k, error, exitCode, probed,
                   getLog, snapshot, examined,
                   lastHead,
                   passProbed,
                   dropped>>

\* line 154
NotExisting ==
    /\ pc = "exists"
    /\ ~Exists(fs, CurrentArchive)
    /\ pc' = "head"
    /\ UNCHANGED <<prog, fs, todo, idx, ip, k, error, exitCode, probed, getLog, removed, snapshot, examined,
                   lastHead,
                   passProbed,
                   dropped>>

\* the except clause of line 164
Caught(outcome) == outcome = "ConnectTimeout"

\* lines 157-159 with r.ok
HeadOk ==
    /\ pc = "head"
    /\ probed' = probed \cup {ip}
    /\ pc' = "open"
    /\ UNCHANGED <<prog, fs, todo, idx, ip, k, error, exitCode, getLog,
                   removed, snapshot, examined,
                   dropped>>
    /\ lastHead' = "ok"
    /\ passProbed' = passProbed \cup {ip}

\* lines 160-163
HeadNotOk ==
    /\ pc = "head"
    /\ probed' = probed \cup {ip}
    /\ todo' = ListRemove(todo, ip)
    /\ removed' = Append(removed, [ip |-> ip, site |-> "notok"])
    /\ pc' = "for"
    /\ UNCHANGED <<prog, fs, idx, ip, k, error, exitCode, getLog, snapshot,
                   examined,
                   dropped>>
    /\ lastHead' = "notok"
    /\ passProbed' = passProbed \cup {ip}

\* a handler that swallows the timeout and falls through to the download
HeadRaisesFallsThrough ==
    /\ pc = "head"
    /\ \E outcome \in HeadOutcomes \ {"ok", "notok"} :
        /\ lastHead' = outcome
        /\ IF Caught(outcome)
           THEN pc' = "open" /\ error' = error
           ELSE pc' = "crashed" /\ error' = outcome
    /\ probed' = probed \cup {ip}
    /\ passProbed' = passProbed \cup {ip}
    /\ UNCHANGED <<prog, fs, todo, idx, ip, k, exitCode, getLog, removed,
                   snapshot, examined, dropped>>

\* requests.head raises: lines 164-165 catch ConnectTimeout and nothing else
HeadRaises ==
    /\ pc = "head"
    /\ \E outcome \in HeadOutcomes \ {"ok", "notok"} :
        /\ lastHead' = outcome
        /\ IF Caught(outcome)
           THEN pc' = "for" /\ error' = error
           ELSE pc' = "crashed" /\ error' = outcome
    /\ probed' = probed \cup {ip}
    /\ UNCHANGED <<prog, fs, todo, idx, ip, k, exitCode, getLog, removed,
                   snapshot, examined,
                   dropped>>
    /\ passProbed' = passProbed \cup {ip}

\* line 168
OpenArchive ==
    /\ pc = "open"
    /\ fs' = ZipOpen(fs, CurrentArchive)
    /\ k' = 1
    /\ pc' = "get"
    /\ UNCHANGED <<prog, todo, idx, ip, error, exitCode, probed,
                   getLog, removed, snapshot, examined,
                   lastHead,
                   passProbed,
                   dropped>>

\* lines 171-176 for one filename, when requests.get returns a response
GetResponse ==
    /\ pc = "get"
    /\ k <= Len(DOWNLOAD_FILES)
    /\ \E r \in GetResponses(DOWNLOAD_FILES[k]) :
        /\ getLog' = [getLog EXCEPT ![ip] =
               Append(@, [path |-> DOWNLOAD_FILES[k], answer |-> r.content])]
        /\ fs' = WriteStr(fs, CurrentArchive, DOWNLOAD_FILES[k], r.content)
    /\ k' = k + 1
    /\ UNCHANGED <<prog, pc, todo, idx, ip, error, exitCode, probed, removed, snapshot, examined,
                   lastHead,
                   passProbed,
                   dropped>>

\* line 173 raises (no handler): the with statement closes the archive
GetRaises ==
    /\ pc = "get"
    /\ k <= Len(DOWNLOAD_FILES)
    /\ DOWNLOAD_FILES[k] \in MayFail
    /\ getLog' = [getLog EXCEPT ![ip] =
           Append(@, [path |-> DOWNLOAD_FILES[k], answer |-> "raised"])]
    /\ pc' = "crashed"
    /\ error' = "RequestException"
    /\ UNCHANGED <<prog, fs, todo, idx, ip, k, exitCode, probed,
                   removed, snapshot, examined,
                   lastHead,
                   passProbed,
                   dropped>>

\* lines 178-179
RemoveDone ==
    /\ pc = "get"
    /\ k > Len(DOWNLOAD_FILES)
    /\ todo' = ListRemove(todo, ip)
    /\ removed' = Append(removed, [ip |-> ip, site |-> "done"])
    /\ pc' = "for"
    /\ UNCHANGED <<prog, fs, idx, ip, k, error, exitCode, probed,
                   getLog, snapshot, examined,
                   lastHead,
                   passProbed,
                   dropped>>

\* line 181
Sleep ==
    /\ pc = "sleeping"
    /\ pc' = "while"
    /\ UNCHANGED <<prog, fs, todo, idx, ip, k, error, exitCode, probed, getLog, removed, snapshot, examined,
                   lastHead,
                   dropped>>
    /\ passProbed' = {}

Next ==
    \/ GetLeases
    \/ GetLeasesMalformed
    \/ WhileEnter
    \/ Return
    \/ ForNext
    \/ ForEnd
    \/ SkipExisting
    \/ NotExisting
    \/ HeadOk
    \/ HeadNotOk
    \/ HeadRaises
    \/ OpenArchive
    \/ GetResponse
    \/ GetRaises
    \/ RemoveDone
    \/ Sleep

Spec == Init /\ [][Next]_vars

\* main() is one sequential thread: it takes its next step whenever it has one
FairSpec == Spec /\ WF_vars(Next)

(***************************************************************************)
(* Properties.                                                             *)
(***************************************************************************)
\* the addresses todo.remove() was called for at the given site
RemovedAt(site) == {removed[i].ip : i \in {j \in 1..Len(removed) : removed[j].site = site}}

\* the archive file of an address of the queue
ArchiveOf(a) == ArchiveFilename(a, ip2hostname[a])

\* C1: a target whose archive exists when the loop examines it (it is removed
\* at the skip of lines 149-152) gets no HEAD and no GET during the run.
C1_SkippedNeverRequested ==
    \A a \in RemovedAt("exists") : a \notin probed /\ getLog[a] = <<>>

\* C2: a liveness probe that ends in a timeout or any connection failure
\* leaves the run going: no run is ended by a transport failure of a probe.
C2_ProbeFailureContinues ==
    pc = "crashed" => error \notin {"ConnectTimeout", "ReadTimeout", "ConnectionError"}

\* C3: a failed fetch of one manifest resource does not abort the run: the
\* run is never ended by an exception of a GET.
C3_FetchFailureNonFatal ==
    ~(pc = "crashed" /\ error = "RequestException")

\* C4: the archive of a target holds one entry per GET that returned, in
\* the order of the requests, named as the path requested and holding the
\* body returned; once the retrieval is complete these are the 9 manifest
\* resources in manifest order, whether or not the responses were successes.
C4_ArchiveMatchesManifest ==
    /\ \A a \in probed :
        LET answered == SelectSeq(getLog[a], LAMBDA g : g.answer # "raised")
        IN  answered # <<>> =>
                /\ Exists(fs, ArchiveOf(a))
                /\ fs[ArchiveOf(a)] =
                       [j \in 1..Len(answered) |->
                           [name |-> answered[j].path, data |-> answered[j].answer]]
    /\ \A a \in RemovedAt("done") :
        /\ Exists(fs, ArchiveOf(a))
        /\ Len(fs[ArchiveOf(a)]) = Len(DOWNLOAD_FILES)
        /\ \A j \in 1..Len(DOWNLOAD_FILES) : fs[ArchiveOf(a)][j].name = DOWNLOAD_FILES[j]

\* C4 witness: a retrieval is complete and one of its responses was an error page.
C4_Witness ==
    \E a \in RemovedAt("done") :
        /\ \E j \in 1..Len(fs[ArchiveOf(a)]) : fs[ArchiveOf(a)][j].data = "errorpage"
        /\ \E j \in 1..Len(fs[ArchiveOf(a)]) : fs[ArchiveOf(a)][j].data = "data"

\* C5: when a pass is over, every target that was in the queue when the pass
\* began has been examined exactly once in the pass.
C5_PassExaminesSnapshot ==
    pc = "sleeping" => \A a \in IPs : Count(examined, a) = Count(snapshot, a)

\* C6: no target is removed from the work queue more than once, and every
\* removal is at one of the three sites (archive exists, probe not ok,
\* retrieval complete).
C6_RemovedOnce ==
    /\ \A i, j \in 1..Len(removed) : removed[i].ip = removed[j].ip => i = j
    /\ \A i \in 1..Len(removed) : removed[i].site \in {"exists", "notok", "done"}

\* C7: every address is in the work queue at most once, whatever the feed.
C7_QueueHasNoDuplicates ==
    \A a \in IPs : Count(todo, a) <= 1

\* C8: a target whose probe returned a non-success response gets no GET and
\* no archive, and is never probed again.
C8_NotOkIsTerminal ==
    \A a \in RemovedAt("notok") :
        /\ getLog[a] = <<>>
        /\ ~Exists(fs, ArchiveOf(a))
        /\ ~(pc \in {"head", "open", "get"} /\ ip = a)

\* C9: the loop sleeps only while the work queue is non-empty.
C9_SleepsOnlyWithWork ==
    pc = "sleeping" => Len(todo) > 0

\* C10: main returns only with an empty queue and then returns 0; and unless
\* a request raises past main or the probes time out for ever, it returns.
C10_TerminatesWhenDrained ==
    /\ [](pc = "done" => todo = <<>> /\ exitCode = 0)
    /\ \/ <>(pc = "done")
       \/ <>(pc = "crashed")
       \/ []<><<HeadRaises>>_vars

\* C10 witness: the run has returned 0 with the queue drained, one target
\* retrieved completely and another removed at one of the other two sites.
C10_Witness ==
    /\ pc = "done"
    /\ exitCode = 0
    /\ todo = <<>>
    /\ RemovedAt("done") # {}
    /\ (RemovedAt("notok") \cup RemovedAt("exists")) \ RemovedAt("done") # {}

\* the addresses in the work queue
Queued == {todo[i] : i \in 1..Len(todo)}

\* a queued address without archive whose probes so far all timed out
Silent(a) ==
    /\ a \in Queued
    /\ a \in probed
    /\ ~Exists(fs, ArchiveOf(a))
    /\ a \notin RemovedAt("notok")
    /\ ~(ip = a /\ lastHead \in {"ok", "notok", "ConnectionError"})

\* C11: while a queued target without archive has answered no probe (every
\* probe of it timed out), the run has not ended: it goes on polling.
C11_SilentTargetKeepsRunning ==
    \A a \in IPs : Silent(a) => pc \notin {"done", "crashed"}

\* C12: between any two probes of the same target there is at least one
\* sleep: no HEAD goes to an address already probed since the last sleep
\* (so a target that timed out is probed again on a later pass only).
C12_SleepBetweenProbes ==
    pc = "head" => ip \notin passProbed

\* the lines of a feed whose identifier begins with 'ESP-'
Prefixed(lines) ==
    {i \in 1..Len(lines) :
        /\ Len(lines[i].hostname) >= 4
        /\ lines[i].hostname[1] = "E" /\ lines[i].hostname[2] = "S"
        /\ lines[i].hostname[3] = "P" /\ lines[i].hostname[4] = "-"}

\* the j-th of them, in source order
NthPrefixed(lines, j) ==
    CHOOSE i \in Prefixed(lines) : Cardinality({m \in Prefixed(lines) : m <= i}) = j

\* C13: for a well-formed feed the parser returns exactly the (address,
\* identifier) pairs of the records whose identifier begins with 'ESP-', in
\* source order, duplicates kept; the other records are dropped.
C13_ParserKeepsPrefixed ==
    [][(pc = "start" /\ feedOk /\ \A i \in 1..Len(feed) : feed[i].matches) =>
          /\ pc' = "while"
          /\ Len(ips_hostnames') = Cardinality(Prefixed(feed))
          /\ \A j \in 1..Len(ips_hostnames') :
                ips_hostnames'[j] =
                    <<feed[NthPrefixed(feed, j)].ip, feed[NthPrefixed(feed, j)].hostname>>]_vars

\* C13 witness: the parser has returned; it kept a record and dropped another.
C13_Witness ==
    pc = "while" /\ feedOk /\ dropped # {} /\ ips_hostnames # <<>>

\* the addresses of the retained lease entries
RetainedAddresses == {ips_hostnames[i][1] : i \in 1..Len(ips_hostnames)}

\* the addresses a GET was issued to
Fetched == {a \in IPs : getLog[a] # <<>>}

\* C14: a record whose identifier lacks the prefix is not retained, and the
\* queue, every HEAD and every GET hold addresses of retained entries only:
\* an address that only dropped records carry gets no request.
C14_OnlyRetainedTargets ==
    /\ \A i \in 1..Len(ips_hostnames) :
          SubSeq(ips_hostnames[i][2], 1, 4) = <<"E", "S", "P", "-">>
    /\ Queued \subseteq RetainedAddresses
    /\ probed \subseteq RetainedAddresses
    /\ Fetched \subseteq RetainedAddresses
    /\ pc \in {"exists", "head", "open", "get"} => ip \in RetainedAddresses
    /\ (dropped \ RetainedAddresses) \cap (Queued \cup probed \cup Fetched) = {}

\* C14 witness: one address is carried by a dropped record only while
\* another address has been probed and fetched.
C14_Witness ==
    /\ dropped \ RetainedAddresses # {}
    /\ probed # {}
    /\ Fetched # {}

\* C15: a (delivered) feed with a line that does not match the grammar ends
\* the run with an error at once: no queue, no probe, no fetch, no archive.
C15_MalformedFeedIsFatal ==
    /\ [][(pc = "start" /\ feedOk /\ \E i \in 1..Len(feed) : ~feed[i].matches) =>
            /\ pc' = "crashed"
            /\ error' = "AttributeError"
            /\ UNCHANGED <<todo, fs, probed, getLog, removed>>]_vars
    /\ [](error = "AttributeError" =>
            /\ pc = "crashed"
            /\ todo = <<>>
            /\ probed = {}
            /\ Fetched = {}
            /\ removed = <<>>
            /\ fs \in InitialDisks)
    /\ [][pc # "crashed"]_vars

\* C15 witness: the run was aborted by a malformed line that came after a
\* well-formed record with the prefix.
C15_Witness ==
    pc = "crashed" /\ error = "AttributeError" /\ ips_hostnames # <<>>

\* C16: a HEAD is issued only when the archive does not exist; an archive is
\* created or written and a GET is issued only for the target under
\* examination and only after its HEAD of this examination returned success;
\* a live target is removed only after all 9 resources were attempted.
C16_StepsInOrder ==
    /\ [](pc = "head" => ~Exists(fs, CurrentArchive))
    /\ [][(fs' # fs \/ getLog' # getLog) =>
            /\ lastHead = "ok" /\ lastHead' = "ok"
            /\ ip' = ip /\ ip \in probed
            /\ \A a \in IPs \ {ip} : getLog'[a] = getLog[a]
            /\ \A f \in DOMAIN fs : f \in DOMAIN fs' /\ (f # CurrentArchive => fs'[f] = fs[f])
            /\ DOMAIN fs' \subseteq DOMAIN fs \cup {CurrentArchive}]_vars
    /\ [][(todo' # todo /\ lastHead = "ok") =>
            Len(getLog[ip]) = Len(DOWNLOAD_FILES)]_vars
    /\ [](\A a \in RemovedAt("done") : Len(getLog[a]) = Len(DOWNLOAD_FILES))

\* C16 witness: a probed target has just been removed after its retrieval.
C16_Witness ==
    pc = "for" /\ lastHead = "ok" /\ ip \in RemovedAt("done") /\ ip \notin Queued

\* s is t with some elements left out
RECURSIVE IsSubSeq(_, _)
IsSubSeq(s, t) ==
    IF s = <<>> THEN TRUE
    ELSE IF t = <<>> THEN FALSE
    ELSE IF Head(s) = Head(t) THEN IsSubSeq(Tail(s), Tail(t))
    ELSE IsSubSeq(s, Tail(t))

\* C17: the queue is always a sub-collection of the queue built from the
\* lease entries, and after its initialization a step never adds an address
\* or puts one back: it leaves the queue or takes elements out.
C17_QueueOnlyShrinks ==
    /\ [](IsSubSeq(todo, [i \in 1..Len(ips_hostnames) |-> ips_hostnames[i][1]]))
    /\ [][pc # "start" =>
            /\ IsSubSeq(todo', todo)
            /\ \A a \in IPs : Count(todo', a) <= Count(todo, a)]_vars

\* C17 witness: one of two queued targets has been removed, the other is queued.
C17_Witness ==
    Len(ips_hostnames) = 2 /\ Len(todo) = 1 /\ Len(removed) = 1

\* C18: when main has returned, every address of the initial queue has an
\* archive on disk or got a non-success answer to a probe.
C18_DoneMeansSettled ==
    pc = "done" =>
        \A i \in 1..Len(ips_hostnames) :
            \/ Exists(fs, ArchiveOf(ips_hostnames[i][1]))
            \/ ips_hostnames[i][1] \in RemovedAt("notok")

\* C18 witness: main has returned; one address was retrieved, another was
\* dismissed after a non-success answer and has no archive.
C18_Witness ==
    /\ pc = "done"
    /\ \E a \in RemovedAt("done") : Exists(fs, ArchiveOf(a))
    /\ \E a \in RemovedAt("notok") : ~Exists(fs, ArchiveOf(a))

\* the identifier of the last retained record of an address
LastHostname(a) ==
    LET last == CHOOSE i \in 1..Len(ips_hostnames) :
                    /\ ips_hostnames[i][1] = a
                    /\ \A j \in (i + 1)..Len(ips_hostnames) : ips_hostnames[j][1] # a
    IN  ips_hostnames[last][2]

\* C19: an address of several retained records is retrieved at most once,
\* the only archive the run writes for it is named with the identifier of
\* its last record, and every removal of it after the first one is at the
\* archive-exists skip (no probe, no fetch).
C19_DuplicatesSkipped ==
    \A a \in RetainedAddresses :
        Count([i \in 1..Len(ips_hostnames) |-> ips_hostnames[i][1]], a) >= 2 =>
            /\ Len(getLog[a]) <= Len(DOWNLOAD_FILES)
            /\ \A h \in Hosts :
                  (/\ Exists(fs, ArchiveFilename(a, h))
                   /\ fs[ArchiveFilename(a, h)] \notin PreContents) => h = LastHostname(a)
            /\ \A i, j \in 1..Len(removed) :
                  (i < j /\ removed[i].ip = a /\ removed[j].ip = a) =>
                      removed[j].site = "exists"

\* C20: when the lease feed request returns a non-success response the run
\* has no target, issues no request, creates no archive, never sleeps, raises
\* nothing, and returns 0.
C20_FeedNotOkEndsQuietly ==
    /\ [](~feedOk =>
            /\ pc \in {"start", "while", "done"}
            /\ ips_hostnames = <<>> /\ todo = <<>>
            /\ probed = {} /\ Fetched = {}
            /\ error = "none")
    /\ [][~feedOk => fs' = fs]_vars
    /\ [](~feedOk => <>(pc = "done" /\ exitCode = 0))

\* C20 witness: main has returned 0 although the body of the non-success
\* response held a record with the prefix.
C20_Witness ==
    ~feedOk /\ pc = "done" /\ exitCode = 0 /\ Prefixed(feed) # {}

====
